---- MODULE Spec2Model ----
(***************************************************************************)
(* Model of the browser-driven message dispatcher of src/app.py:           *)
(* job() (lines 207-227) and send_whatsapp_message() (lines 161-205).      *)
(*                                                                         *)
(* Every call the code makes on the browser (selenium) is an operation of  *)
(* the environment that either returns or raises; the model chooses the    *)
(* outcome nondeterministically.  The try/except of lines 163/204 turns a  *)
(* raised exception into one error log record and ends the call.           *)
(* webdriver.Chrome.quit() swallows the exceptions of the remote QUIT      *)
(* command, so quit (line 203) is modelled as an operation that returns.   *)
(***************************************************************************)
EXTENDS Integers, Sequences, FiniteSets, TLC

\* ---------------------------------------------------------------- bounds
MaxContacts == 2
MaxMsgLen == 3
MaxArticles == 3
MaxFetched == 1
MaxPerSource == 2

\* default of max_headlines_per_source
MAX_HEADLINES_PER_SOURCE == 3

\* ---------------------------------------------------------- input domains
NL == "\n"
Chars == {"a", NL}

\* contact display names; the first is a proper prefix of the second
Al == <<"A", "l">>
Alice == <<"A", "l", "i", "c", "e">>
Names == {Al, Alice}
\* titles the messaging UI can render in its result list
Titles == {Al, Alice}

SeqsUpTo(S, n) == UNION {[1..m -> S] : m \in 0..n}

Messages == SeqsUpTo(Chars, MaxMsgLen)
ContactLists == SeqsUpTo(Names, MaxContacts)

\* ------------------------------------------------------------ pure helpers
IsPrefix(s, t) == /\ Len(s) <= Len(t)
                  /\ SubSeq(t, 1, Len(s)) = s

\* index of the first element of s equal to c, 0 when there is none
RECURSIVE FirstIndex(_, _, _)
FirstIndex(s, c, from) ==
    IF from > Len(s) THEN 0
    ELSE IF s[from] = c THEN from
    ELSE FirstIndex(s, c, from + 1)

\* message.split("\n"): the pieces between the separators, k separators
\* give k+1 pieces, the empty string gives one empty piece
RECURSIVE Split(_)
Split(s) ==
    LET p == FirstIndex(s, NL, 1)
    IN  IF p = 0 THEN <<s>>
        ELSE <<SubSeq(s, 1, p - 1)>> \o Split(SubSeq(s, p + 1, Len(s)))

\* the XPath predicate @title="{contact_name}": equality of the whole title
ExactTitleMatch_prefix(title, name) == IsPrefix(name, title)
ExactTitleMatch(title, name) == title = name

\* key events sent into the message input
TextKey(line) == [kind |-> "text", text |-> line]
LineBreakKey_enter == [kind |-> "submit", text |-> <<>>]
LineBreakKey == [kind |-> "linebreak", text |-> <<>>]
SubmitKey == [kind |-> "submit", text |-> <<>>]

\* log records
SentRecord(c) == [kind |-> "Delivered", contact |-> c, cause |-> "none"]
ErrorRecord(c, cause) == [kind |-> "Failed", contact |-> c, cause |-> cause]
CompletedRecord == [kind |-> "JobCompleted", contact |-> <<>>, cause |-> "none"]
SkippedRecord == [kind |-> "NoArticles", contact |-> <<>>, cause |-> "none"]

\* ------------------------------------------------- aggregation pipeline
\* articles as the news API returns them: the source name may be absent
NoName == "<no name>"
ArticleSources == {"S1", NoName}
\* titles: blank, plain, and one with a leading blank and a final full stop
ArticleTitles == {<<" ">>, <<"t">>, <<" ", "u", ".">>}
ArticleKinds == [source : ArticleSources, title : ArticleTitles]
ArticleLists == SeqsUpTo(ArticleKinds, MaxArticles)
FetchedLists == SeqsUpTo(ArticleKinds, MaxFetched)

\* the labels analyze_sentiment returns
Sentiments == {"Overall Positive", "Overall Negative", "Neutral"}
\* what fetch_inspirational_quote returns: "" or the quoted text and author
Quotes == {<<>>, <<"\"q\" - a">>}

\* the contact lists of the runs of the whole job
JobContactLists == SeqsUpTo({Alice}, MaxContacts)

\* article.get("source", {}).get("name", "Unknown Source")
SourceName(article) ==
    IF article.source = NoName THEN "Unknown Source" ELSE article.source

\* str.strip() for the blank character
RECURSIVE LStrip(_)
LStrip(s) == IF s # <<>> /\ Head(s) = " " THEN LStrip(Tail(s)) ELSE s

RECURSIVE RStrip(_)
RStrip(s) ==
    IF s # <<>> /\ s[Len(s)] = " "
    THEN RStrip(SubSeq(s, 1, Len(s) - 1))
    ELSE s

Strip(s) == RStrip(LStrip(s))

\* position of the entry of source in the dict, 0 when it has none
RECURSIVE IndexOfSource(_, _, _)
IndexOfSource(g, source, from) ==
    IF from > Len(g) THEN 0
    ELSE IF g[from].source = source THEN from
    ELSE IndexOfSource(g, source, from + 1)

\* one iteration of the loop of lines 74-82
GroupStep_le(g, article, max) ==
    LET source == SourceName(article)
        headline == Strip(article.title)
        g1 == IF IndexOfSource(g, source, 1) = 0
              THEN Append(g, [source |-> source, headlines |-> <<>>])
              ELSE g
        p == IndexOfSource(g1, source, 1)
    IN  IF headline = <<>> THEN g
        ELSE IF Len(g1[p].headlines) <= max
        THEN [g1 EXCEPT ![p].headlines = Append(@, headline)]
        ELSE g1

GroupStep(g, article, max) ==
    LET source == SourceName(article)
        headline == Strip(article.title)
        g1 == IF IndexOfSource(g, source, 1) = 0
              THEN Append(g, [source |-> source, headlines |-> <<>>])
              ELSE g
        p == IndexOfSource(g1, source, 1)
    IN  IF headline = <<>> THEN g
        ELSE IF Len(g1[p].headlines) < max
        THEN [g1 EXCEPT ![p].headlines = Append(@, headline)]
        ELSE g1

RECURSIVE GroupFrom(_, _, _)
GroupFrom(g, as, max) ==
    IF as = <<>> THEN g
    ELSE GroupFrom(GroupStep(g, Head(as), max), Tail(as), max)

\* lines 72-83; the dict is the sequence of its entries in insertion order
group_articles_by_source(as, max_per_source) ==
    GroupFrom(<<>>, as, max_per_source)

\* lines 147-149: the headline with a final full stop, as a list item
HeadlineLine(headline) ==
    <<"* ">> \o (IF headline[Len(headline)] # "." THEN headline \o <<".">>
                 ELSE headline)

RECURSIVE HeadlineLines(_)
HeadlineLines(hs) ==
    IF hs = <<>> THEN <<>>
    ELSE <<HeadlineLine(Head(hs))>> \o HeadlineLines(Tail(hs))

\* lines 144-150
RECURSIVE SourceLines(_)
SourceLines(g) ==
    IF g = <<>> THEN <<>>
    ELSE <<<<Head(g).source, ":">>>> \o HeadlineLines(Head(g).headlines)
         \o <<<<>>>> \o SourceLines(Tail(g))

\* "\n".join(lines)
RECURSIVE Join(_)
Join(ls) ==
    IF ls = <<>> THEN <<>>
    ELSE IF Len(ls) = 1 THEN Head(ls)
    ELSE Head(ls) \o <<NL>> \o Join(Tail(ls))

\* lines 141-159
create_formatted_message_from_grouping_nofooter(g, sentiment, quote, soccer) ==
    IF g = <<>> THEN <<>>
    ELSE Join(<<<<"Daily News Summary">>, <<>>>>
              \o SourceLines(g)
              \o <<<<"Overall Sentiment: ", sentiment>>>>)

create_formatted_message_from_grouping(g, sentiment, quote, soccer) ==
    Join(<<<<"Daily News Summary">>, <<>>>>
         \o SourceLines(g)
         \o (IF soccer # <<>> THEN <<soccer, <<>>>> ELSE <<>>)
         \o <<<<"Overall Sentiment: ", sentiment>>>>
         \o (IF quote # <<>> THEN <<<<"Inspirational Quote: ">> \o quote>>
             ELSE <<>>)
         \o <<<<>>, <<"Have a great day!">>>>)

\* ------------------------------------------------------------------ state
VARIABLES
    contacts,   \* CONTACTS (config)
    message,    \* formatted_message handed to send_whatsapp_message
    jobpc,      \* position of job(): "start", "loop", "completed", "returned"
    i,          \* 1-based position of the for loop of line 225
    pc,         \* position inside send_whatsapp_message, "idle" outside it
    k,          \* 1-based position of the for loop of line 195
    attempted,  \* contacts send_whatsapp_message was called with, in order
    steps,      \* browser operations invoked by the current call, in order
    events,     \* key events the current call emitted into the message input
    rendered,   \* titles rendered when the current call looked the contact up
    clicked,    \* titles of the contact entries the current call clicked
    sessions,   \* one entry per attached driver: "open" or "closed"
    log,        \* outcome records of the run, in order
    articles,   \* what fetch_news returned (line 209)
    maxPerSource, \* MAX_HEADLINES_PER_SOURCE (config)
    grouped,    \* grouped_articles (line 213), in insertion order
    passed      \* the message argument of every call, in order

pipeline == <<articles, maxPerSource, grouped>>

vars == <<contacts, message, jobpc, i, pc, k, attempted, steps, events,
          rendered, clicked, sessions, log, articles, maxPerSource, grouped,
          passed>>

Init ==
    /\ contacts \in ContactLists
    /\ message \in Messages
    /\ jobpc = "start"
    /\ i = 1
    /\ pc = "idle"
    /\ k = 1
    /\ attempted = <<>>
    /\ steps = <<>>
    /\ events = <<>>
    /\ rendered = {}
    /\ clicked = <<>>
    /\ sessions = <<>>
    /\ log = <<>>
    /\ articles = <<>>
    /\ maxPerSource = MAX_HEADLINES_PER_SOURCE
    /\ grouped = <<>>
    /\ passed = <<>>

lines == Split(message)

\* an operation returned: go on at position next
Ok(next) ==
    /\ pc' = next
    /\ log' = log

\* an operation raised: the handler of lines 204-205 logs the error and the
\* call ends
Raise_propagate(cause) ==
    /\ pc' = "raised"
    /\ log' = log

Raise(cause) ==
    /\ pc' = "failed"
    /\ log' = Append(log, ErrorRecord(contacts[i], cause))

Invoke(step) == steps' = Append(steps, step)

\* ------------------------------------------------------------------- job()
\* lines 207-212: fetch_news; no articles: warn and return
JobStart ==
    /\ jobpc = "start"
    /\ \E fetched \in BOOLEAN :
         IF fetched
         THEN /\ jobpc' = "loop"
              /\ log' = log
         ELSE /\ jobpc' = "returned"
              /\ log' = Append(log, SkippedRecord)
    /\ UNCHANGED <<pipeline, passed>>
    /\ UNCHANGED <<contacts, message, i, pc, k, attempted, steps, events,
                   rendered, clicked, sessions>>

\* lines 225-226 and 161-162: the loop calls send_whatsapp_message
Enter_nowait ==
    /\ jobpc = "loop"
    /\ pc \in {"idle", "navigate", "log_sent"}
    /\ i <= Len(contacts)
    /\ pc' = "attach"
    /\ attempted' = Append(attempted, contacts[i])
    /\ steps' = <<>>
    /\ events' = <<>>
    /\ rendered' = {}
    /\ clicked' = <<>>
    /\ k' = 1
    /\ passed' = Append(passed, message)
    /\ UNCHANGED pipeline
    /\ UNCHANGED <<contacts, message, jobpc, i, sessions, log>>

Enter ==
    /\ jobpc = "loop"
    /\ pc = "idle"
    /\ i <= Len(contacts)
    /\ pc' = "attach"
    /\ attempted' = Append(attempted, contacts[i])
    /\ steps' = <<>>
    /\ events' = <<>>
    /\ rendered' = {}
    /\ clicked' = <<>>
    /\ k' = 1
    /\ passed' = Append(passed, message)
    /\ UNCHANGED pipeline
    /\ UNCHANGED <<contacts, message, jobpc, i, sessions, log>>

\* the call returned (normally or from the handler): next iteration
Return_break ==
    /\ pc \in {"done", "failed"}
    /\ pc' = "idle"
    /\ i' = IF pc = "failed" THEN Len(contacts) + 1 ELSE i + 1
    /\ UNCHANGED <<pipeline, passed>>
    /\ UNCHANGED <<contacts, message, jobpc, k, attempted, steps, events,
                   rendered, clicked, sessions, log>>

Return_retry ==
    /\ pc \in {"done", "failed"}
    /\ pc' = "idle"
    /\ i' = IF pc = "failed" THEN i ELSE i + 1
    /\ UNCHANGED <<pipeline, passed>>
    /\ UNCHANGED <<contacts, message, jobpc, k, attempted, steps, events,
                   rendered, clicked, sessions, log>>

Return ==
    /\ pc \in {"done", "failed"}
    /\ pc' = "idle"
    /\ i' = i + 1
    /\ UNCHANGED <<pipeline, passed>>
    /\ UNCHANGED <<contacts, message, jobpc, k, attempted, steps, events,
                   rendered, clicked, sessions, log>>

\* line 227: the loop is exhausted
JobComplete ==
    /\ jobpc = "loop"
    /\ pc = "idle"
    /\ i > Len(contacts)
    /\ jobpc' = "completed"
    /\ log' = Append(log, CompletedRecord)
    /\ UNCHANGED <<pipeline, passed>>
    /\ UNCHANGED <<contacts, message, i, pc, k, attempted, steps, events,
                   rendered, clicked, sessions>>

\* lines 207-212 with fetch_news (54-70): the articles of a 200 response,
\* [] for any other status and for an exception; no articles: warn, return
FetchNews_nocheck ==
    /\ jobpc = "start"
    /\ \E response \in {"ok", "status", "exception"}, as \in FetchedLists :
         /\ articles' = IF response = "ok" THEN as ELSE <<>>
         /\ jobpc' = "fetched"
         /\ log' = log
    /\ UNCHANGED <<maxPerSource, grouped, passed>>
    /\ UNCHANGED <<contacts, message, i, pc, k, attempted, steps, events,
                   rendered, clicked, sessions>>

FetchNews ==
    /\ jobpc = "start"
    /\ \E response \in {"ok", "status", "exception"}, as \in FetchedLists :
         /\ articles' = IF response = "ok" THEN as ELSE <<>>
         /\ IF articles' # <<>>
            THEN /\ jobpc' = "fetched"
                 /\ log' = log
            ELSE /\ jobpc' = "returned"
                 /\ log' = Append(log, SkippedRecord)
    /\ UNCHANGED <<maxPerSource, grouped, passed>>
    /\ UNCHANGED <<contacts, message, i, pc, k, attempted, steps, events,
                   rendered, clicked, sessions>>

\* line 213
GroupArticles ==
    /\ jobpc = "fetched"
    /\ grouped' = group_articles_by_source(articles, maxPerSource)
    /\ jobpc' = "grouped"
    /\ UNCHANGED <<articles, maxPerSource, passed>>
    /\ UNCHANGED <<contacts, message, i, pc, k, attempted, steps, events,
                   rendered, clicked, sessions, log>>

\* lines 216-223: sentiment label, quote, formatted_message
FormatMessage ==
    /\ jobpc = "grouped"
    /\ \E sentiment \in Sentiments, quote \in Quotes :
         message' = create_formatted_message_from_grouping(
                        grouped, sentiment, quote, <<>>)
    /\ jobpc' = "loop"
    /\ UNCHANGED <<pipeline, passed>>
    /\ UNCHANGED <<contacts, i, pc, k, attempted, steps, events,
                   rendered, clicked, sessions, log>>

\* ------------------------------------------------- send_whatsapp_message()
\* lines 164-167: webdriver.Chrome attaches to the debugger address
Attach ==
    /\ pc = "attach"
    /\ Invoke("attach")
    /\ \/ /\ Ok("navigate")
          /\ sessions' = Append(sessions, "open")
       \/ /\ Raise("AttachError")
          /\ sessions' = sessions
    /\ UNCHANGED <<pipeline, passed>>
    /\ UNCHANGED <<contacts, message, jobpc, i, k, attempted, events,
                   rendered, clicked>>

\* line 168: driver.get
Navigate ==
    /\ pc = "navigate"
    /\ Invoke("navigate")
    /\ \/ Ok("await_ready")
       \/ Raise("UnexpectedUIError")
    /\ UNCHANGED <<pipeline, passed>>
    /\ UNCHANGED <<contacts, message, jobpc, i, k, attempted, events,
                   rendered, clicked, sessions>>

\* lines 171-172: wait for the body element
AwaitReady ==
    /\ pc = "await_ready"
    /\ Invoke("await_ready")
    /\ \/ Ok("locate_search")
       \/ \E c \in {"TimeoutError", "UnexpectedUIError"} : Raise(c)
    /\ UNCHANGED <<pipeline, passed>>
    /\ UNCHANGED <<contacts, message, jobpc, i, k, attempted, events,
                   rendered, clicked, sessions>>

\* lines 175-179: wait for the search box
LocateSearch ==
    /\ pc = "locate_search"
    /\ Invoke("locate_search")
    /\ \/ Ok("click_search")
       \/ \E c \in {"TimeoutError", "UnexpectedUIError"} : Raise(c)
    /\ UNCHANGED <<pipeline, passed>>
    /\ UNCHANGED <<contacts, message, jobpc, i, k, attempted, events,
                   rendered, clicked, sessions>>

\* line 180
ClickSearch ==
    /\ pc = "click_search"
    /\ Invoke("click_search")
    /\ \/ Ok("type_query")
       \/ Raise("UnexpectedUIError")
    /\ UNCHANGED <<pipeline, passed>>
    /\ UNCHANGED <<contacts, message, jobpc, i, k, attempted, events,
                   rendered, clicked, sessions>>

\* lines 181-182
TypeQuery_skip ==
    /\ pc = "type_query"
    /\ Invoke("type_query")
    /\ \/ Ok("locate_input")
       \/ Raise("UnexpectedUIError")
    /\ UNCHANGED <<pipeline, passed>>
    /\ UNCHANGED <<contacts, message, jobpc, i, k, attempted, events,
                   rendered, clicked, sessions>>

TypeQuery ==
    /\ pc = "type_query"
    /\ Invoke("type_query")
    /\ \/ Ok("find_contact")
       \/ Raise("UnexpectedUIError")
    /\ UNCHANGED <<pipeline, passed>>
    /\ UNCHANGED <<contacts, message, jobpc, i, k, attempted, events,
                   rendered, clicked, sessions>>

\* lines 185-187: find_element by title, then click the element found
SelectContact ==
    /\ pc = "find_contact"
    /\ Invoke("select_contact")
    /\ \E r \in SUBSET Titles :
         /\ rendered' = r
         /\ \/ \E t \in r :
                 /\ ExactTitleMatch(t, contacts[i])
                 /\ \/ /\ Ok("locate_input")
                       /\ clicked' = Append(clicked, t)
                    \/ /\ Raise("UnexpectedUIError")
                       /\ clicked' = clicked
            \/ /\ \A t \in r : ~ExactTitleMatch(t, contacts[i])
               /\ Raise("NotFoundError")
               /\ clicked' = clicked
    /\ UNCHANGED <<pipeline, passed>>
    /\ UNCHANGED <<contacts, message, jobpc, i, k, attempted, events,
                   sessions>>

\* lines 190-192: wait until the message input is clickable
LocateInput ==
    /\ pc = "locate_input"
    /\ Invoke("locate_input")
    /\ \/ Ok("send_line")
       \/ \E c \in {"TimeoutError", "UnexpectedUIError"} : Raise(c)
    /\ UNCHANGED <<pipeline, passed>>
    /\ UNCHANGED <<contacts, message, jobpc, i, k, attempted, events,
                   rendered, clicked, sessions>>

\* line 196: message_box.send_keys(line)
SendLine ==
    /\ pc = "send_line"
    /\ Invoke("key")
    /\ \/ /\ Ok("send_break")
          /\ events' = Append(events, TextKey(lines[k]))
       \/ /\ Raise("UnexpectedUIError")
          /\ events' = events
    /\ UNCHANGED <<pipeline, passed>>
    /\ UNCHANGED <<contacts, message, jobpc, i, k, attempted, rendered,
                   clicked, sessions>>

\* line 197: message_box.send_keys(Keys.SHIFT, Keys.ENTER), then the loop of
\* line 195 advances
SendBreak ==
    /\ pc = "send_break"
    /\ Invoke("key")
    /\ \/ /\ Ok(IF k < Len(lines) THEN "send_line" ELSE "send_enter")
          /\ events' = Append(events, LineBreakKey)
          /\ k' = k + 1
       \/ /\ Raise("UnexpectedUIError")
          /\ events' = events
          /\ k' = k
    /\ UNCHANGED <<pipeline, passed>>
    /\ UNCHANGED <<contacts, message, jobpc, i, attempted, rendered,
                   clicked, sessions>>

\* line 199: message_box.send_keys(Keys.ENTER)
SendEnter ==
    /\ pc = "send_enter"
    /\ Invoke("key")
    /\ \/ /\ Ok("log_sent")
          /\ events' = Append(events, SubmitKey)
       \/ /\ Raise("UnexpectedUIError")
          /\ events' = events
    /\ UNCHANGED <<pipeline, passed>>
    /\ UNCHANGED <<contacts, message, jobpc, i, k, attempted, rendered,
                   clicked, sessions>>

\* line 201
LogSent_silent ==
    /\ pc = "log_sent"
    /\ pc' = "quit"
    /\ log' = log
    /\ UNCHANGED <<pipeline, passed>>
    /\ UNCHANGED <<contacts, message, jobpc, i, k, attempted, steps, events,
                   rendered, clicked, sessions>>

LogSent ==
    /\ pc = "log_sent"
    /\ pc' = "quit"
    /\ log' = Append(log, SentRecord(contacts[i]))
    /\ UNCHANGED <<pipeline, passed>>
    /\ UNCHANGED <<contacts, message, jobpc, i, k, attempted, steps, events,
                   rendered, clicked, sessions>>

\* lines 202-203: driver.quit() closes the session attached by this call
Quit ==
    /\ pc = "quit"
    /\ pc' = "done"
    /\ sessions' = [sessions EXCEPT ![Len(sessions)] = "closed"]
    /\ UNCHANGED <<pipeline, passed>>
    /\ UNCHANGED <<contacts, message, jobpc, i, k, attempted, steps, events,
                   rendered, clicked, log>>

Next ==
    \/ JobStart
    \/ Enter
    \/ Return
    \/ JobComplete
    \/ Attach
    \/ Navigate
    \/ AwaitReady
    \/ LocateSearch
    \/ ClickSearch
    \/ TypeQuery
    \/ SelectContact
    \/ LocateInput
    \/ SendLine
    \/ SendBreak
    \/ SendEnter
    \/ LogSent
    \/ Quit

Spec == Init /\ [][Next]_vars

\* every browser operation returns or raises within its timeout, and the
\* interpreter keeps running the single thread of job()
FairSpec == Spec /\ WF_vars(Next)

\* the whole job: the message is the one lines 213-222 compose
JobInit ==
    /\ contacts \in JobContactLists
    /\ maxPerSource = MAX_HEADLINES_PER_SOURCE
    /\ message = <<>>
    /\ jobpc = "start"
    /\ i = 1
    /\ pc = "idle"
    /\ k = 1
    /\ attempted = <<>>
    /\ steps = <<>>
    /\ events = <<>>
    /\ rendered = {}
    /\ clicked = <<>>
    /\ sessions = <<>>
    /\ log = <<>>
    /\ articles = <<>>
    /\ grouped = <<>>
    /\ passed = <<>>

JobNext ==
    \/ FetchNews
    \/ GroupArticles
    \/ FormatMessage
    \/ Enter
    \/ Return
    \/ JobComplete
    \/ Attach
    \/ Navigate
    \/ AwaitReady
    \/ LocateSearch
    \/ ClickSearch
    \/ TypeQuery
    \/ SelectContact
    \/ LocateInput
    \/ SendLine
    \/ SendBreak
    \/ SendEnter
    \/ LogSent
    \/ Quit

JobSpec == JobInit /\ [][JobNext]_vars

\* group_articles_by_source on its own, for any article list
GroupInit ==
    /\ articles \in ArticleLists
    /\ maxPerSource \in 1..MaxPerSource
    /\ jobpc = "fetched"
    /\ contacts = <<>>
    /\ message = <<>>
    /\ i = 1
    /\ pc = "idle"
    /\ k = 1
    /\ attempted = <<>>
    /\ steps = <<>>
    /\ events = <<>>
    /\ rendered = {}
    /\ clicked = <<>>
    /\ sessions = <<>>
    /\ log = <<>>
    /\ grouped = <<>>
    /\ passed = <<>>

GroupNext == GroupArticles

GroupSpec == GroupInit /\ [][GroupNext]_vars

\* ------------------------------------------------------- derived notions
Last(s) == s[Len(s)]

RECURSIVE CountKind(_, _)
CountKind(ev, kind) ==
    IF ev = <<>> THEN 0
    ELSE (IF Head(ev).kind = kind THEN 1 ELSE 0) + CountKind(Tail(ev), kind)

IsOutcome(r) == r.kind \in {"Delivered", "Failed"}
Outcomes == SelectSeq(log, IsOutcome)

\* the contact of the call in progress, or of the last call
Current == Last(attempted)

\* the call in progress has got past the submit key
Submitted == pc \in {"log_sent", "quit", "done"}

\* the call has reached its end, normally or through the handler
CallEnded == pc \in {"done", "failed"}

LookedUp == \E j \in 1..Len(steps) : steps[j] = "select_contact"

\* the operations of one call in the order of the source
StepOrder == <<"attach", "navigate", "await_ready", "locate_search",
               "click_search", "type_query", "select_contact",
               "locate_input">>
KeyCount == Len(lines) + Len(lines) + 1
FullSteps == StepOrder \o [j \in 1..KeyCount |-> "key"]

\* ------------------------------------------------------------------ claims

\* C1: a run that enters the loop calls send_whatsapp_message exactly once
\* per list entry, in list order, whatever failed before: the calls made so
\* far are the first entries of the list, one per loop position, and when
\* the run completes they are the whole list.
C1_EveryContactAttemptedOnce ==
    /\ Len(attempted) <= Len(contacts)
    /\ attempted = SubSeq(contacts, 1, Len(attempted))
    /\ Len(attempted) = IF pc = "idle" THEN i - 1 ELSE i
    /\ jobpc = "completed" => attempted = contacts

C1_Witness ==
    /\ jobpc = "completed"
    /\ Len(contacts) = 2
    /\ Len(log) = 3
    /\ log[1].kind = "Failed"
    /\ log[2].kind = "Delivered"
    /\ attempted = contacts

\* C2: within one call the operations are invoked in source order without
\* skipping or repeating; once an operation fails the error record of the
\* contact is the last record, and the only thing that follows is the
\* return to the loop: no operation is invoked, no key is emitted, nothing
\* is clicked and the loop moves on to the next contact.
C2_FailedInv ==
    /\ IsPrefix(steps, FullSteps)
    /\ pc = "failed" =>
         /\ steps # <<>>
         /\ Last(log) = ErrorRecord(contacts[i], Last(log).cause)
         /\ Last(log).kind = "Failed"

C2_FailedStep ==
    pc = "failed" =>
        /\ pc' = "idle"
        /\ i' = i + 1
        /\ steps' = steps
        /\ events' = events
        /\ clicked' = clicked
        /\ sessions' = sessions
        /\ log' = log

C2_FailureEndsSequence == [](C2_FailedInv) /\ [][C2_FailedStep]_vars

C2_Witness ==
    /\ pc = "failed"
    /\ steps = SubSeq(StepOrder, 1, 4)
    /\ Last(log).cause = "TimeoutError"

\* C3: the submit key is emitted only after every line has been typed, it is
\* the last key event, and a call that got past compose-and-send emitted
\* exactly one submit: no submit between lines.
C3_SingleSubmitLast ==
    /\ \A j \in 1..Len(events) :
         events[j].kind = "submit" => /\ j = Len(events)
                                      /\ j = KeyCount
    /\ Submitted => /\ CountKind(events, "submit") = 1
                    /\ Last(events) = SubmitKey
                    /\ CountKind(events, "text") = Len(lines)

C3_Witness ==
    /\ pc = "done"
    /\ Len(lines) = 3
    /\ Last(log).kind = "Delivered"
    /\ Last(events) = SubmitKey

\* C4 (as stated): a call that got past compose-and-send emitted N text
\* events, N-1 line-break events and one submit for a message of N lines.
C4_NMinusOneBreaks ==
    Submitted => /\ CountKind(events, "text") = Len(lines)
                 /\ CountKind(events, "linebreak") = Len(lines) - 1
                 /\ CountKind(events, "submit") = 1

\* C5 (as stated): when the processing that attached a session has ended,
\* the session is closed; at the end of the run no session is open.
C5_SessionsReleased ==
    (CallEnded \/ jobpc = "completed") =>
        \A s \in 1..Len(sessions) : sessions[s] = "closed"

\* C6 (as stated): when attach fails the run ends before any contact is
\* attempted and no Delivered or Failed outcome is recorded.
C6_AttachFailureAbortsRun ==
    (pc = "failed" /\ Last(steps) = "attach") =>
        /\ attempted = <<>>
        /\ Outcomes = <<>>

C8_ExactTitleOnly ==
    /\ \A j \in 1..Len(clicked) : clicked[j] = Current
    /\ (LookedUp /\ Current \notin rendered) =>
         /\ clicked = <<>>
         /\ events = <<>>
         /\ pc \in {"failed", "idle"}
         /\ Last(Outcomes) = ErrorRecord(Current, Last(Outcomes).cause)

C8_Witness ==
    /\ pc = "failed"
    /\ LookedUp
    /\ Current = Al
    /\ rendered = {Alice}
    /\ Last(log) = ErrorRecord(Al, "NotFoundError")

\* C9 (as stated): for the empty message no text is inserted and no submit
\* key is emitted for any contact.
C9_EmptyMessageSuppressed ==
    message = <<>> =>
        \A j \in 1..Len(events) :
            /\ events[j].kind # "submit"
            /\ events[j].kind = "text" => events[j].text = <<>>

\* C10: once the loop is entered the run reaches its end: the terminal
\* record is logged, after one outcome record per contact.
C10_RunCompletes ==
    (jobpc = "loop") ~>
        (/\ jobpc = "completed"
         /\ Last(log) = CompletedRecord
         /\ Len(Outcomes) = Len(contacts))

C10_Witness ==
    /\ jobpc = "completed"
    /\ Len(contacts) = 2
    /\ log = <<ErrorRecord(contacts[1], "TimeoutError"),
               ErrorRecord(contacts[2], "UnexpectedUIError"),
               CompletedRecord>>

\* C11: contacts are processed one after the other in list order: at most
\* one call is without its outcome record, a call starts only when every
\* earlier call has its outcome record and it is the call for the next list
\* entry, and every operation invoked belongs to the only call in progress.
C11_OneInProgress ==
    /\ Len(attempted) - Len(Outcomes) \in {0, 1}
    /\ pc \notin {"idle", "quit", "done", "failed"} =>
         /\ Len(attempted) = i
         /\ Len(Outcomes) = i - 1

C11_CallStep ==
    /\ attempted' # attempted =>
         /\ pc = "idle"
         /\ Len(Outcomes) = Len(attempted)
         /\ attempted' = Append(attempted, contacts[Len(attempted) + 1])
    /\ (steps' # steps /\ steps' # <<>>) =>
         /\ attempted' = attempted
         /\ Len(Outcomes) = Len(attempted) - 1

C11_StrictlySequential == [](C11_OneInProgress) /\ [][C11_CallStep]_vars

C11_Witness ==
    /\ pc = "navigate"
    /\ i = 2
    /\ Len(Outcomes) = 1
    /\ log[1].kind = "Failed"
    /\ sessions = <<"open", "open">>

\* C12: a Delivered record is written only by a call that invoked every
\* operation of the sequence exactly once and in source order and clicked
\* the entry of its contact; no key event reaches the message input before
\* all operations up to the message input have been invoked and the entry
\* of the current contact has been clicked.
C12_DeliveredAfterAllStates ==
    /\ events # <<>> =>
         /\ IsPrefix(StepOrder, steps)
         /\ clicked = <<Current>>
    /\ (/\ pc \in {"quit", "done", "idle"}
        /\ Len(Outcomes) > 0
        /\ Len(Outcomes) = Len(attempted)
        /\ Last(Outcomes).kind = "Delivered") =>
         /\ steps = FullSteps
         /\ clicked = <<Current>>
         /\ Last(Outcomes) = SentRecord(Current)

C12_Witness ==
    /\ pc = "done"
    /\ steps = FullSteps
    /\ Len(lines) = 2
    /\ clicked = <<Alice>>
    /\ Last(log) = SentRecord(Alice)

\* C13 (as stated): at every point of a run at most one attached session
\* has not been closed.
C13_AtMostOneOpenSession ==
    Cardinality({s \in 1..Len(sessions) : sessions[s] = "open"}) <= 1

\* C14: when fetch_news returned no articles the job has returned and
\* nothing else happened: no call of send_whatsapp_message, no session, no
\* operation, no key event, and the log holds the warning only, so neither
\* an outcome record nor the terminal record.
C14_NoArticlesNoDispatch ==
    (jobpc # "start" /\ articles = <<>>) =>
        /\ jobpc = "returned"
        /\ pc = "idle"
        /\ attempted = <<>>
        /\ passed = <<>>
        /\ sessions = <<>>
        /\ steps = <<>>
        /\ events = <<>>
        /\ log = <<SkippedRecord>>

C14_Witness ==
    /\ jobpc = "returned"
    /\ articles = <<>>
    /\ Len(contacts) = 2
    /\ log = <<SkippedRecord>>

\* C15: every message the job hands to send_whatsapp_message is non-empty,
\* is the same for every call of the run, has 'Daily News Summary' as its
\* first line and 'Have a great day!' as its last line.
FirstLineIs(m, text) ==
    /\ m # <<>>
    /\ m[1] = text
    /\ Len(m) > 1 => m[2] = NL

LastLineIs(m, text) ==
    /\ m # <<>>
    /\ m[Len(m)] = text
    /\ Len(m) > 1 => m[Len(m) - 1] = NL

C15_MessagePassedByJob ==
    \A j \in 1..Len(passed) :
        /\ passed[j] # <<>>
        /\ passed[j] = passed[1]
        /\ FirstLineIs(passed[j], "Daily News Summary")
        /\ LastLineIs(passed[j], "Have a great day!")

C15_Witness ==
    /\ Len(passed) = 2
    /\ articles # <<>>
    /\ grouped = <<>>
    /\ Len(Split(passed[2])) = 5

\* the stripped non-blank titles of the articles of one source, in input
\* order
RECURSIVE HeadlinesOf(_, _)
HeadlinesOf(as, source) ==
    IF as = <<>> THEN <<>>
    ELSE (IF SourceName(Head(as)) = source /\ Strip(Head(as).title) # <<>>
          THEN <<Strip(Head(as).title)>> ELSE <<>>)
         \o HeadlinesOf(Tail(as), source)

Take(s, n) == SubSeq(s, 1, IF n < Len(s) THEN n ELSE Len(s))

SourceNames == {"S1", "Unknown Source"}

\* C16: group_articles_by_source returns one entry per source that has an
\* article with a non-blank title; its headlines are the first
\* max_per_source non-blank titles of that source in input order, so at most
\* max_per_source of them, and blank titles contribute nothing.
C16_FirstMaxPerSource ==
    jobpc = "grouped" =>
        /\ \A p \in 1..Len(grouped) :
             /\ Len(grouped[p].headlines) <= maxPerSource
             /\ grouped[p].headlines =
                  Take(HeadlinesOf(articles, grouped[p].source), maxPerSource)
             /\ \A q \in 1..Len(grouped) :
                  grouped[q].source = grouped[p].source => q = p
        /\ \A source \in SourceNames :
             HeadlinesOf(articles, source) # <<>> <=>
                 \E p \in 1..Len(grouped) : grouped[p].source = source

C16_Witness ==
    /\ jobpc = "grouped"
    /\ maxPerSource = 1
    /\ Len(articles) = 3
    /\ articles[1].title = <<" ">>
    /\ Len(HeadlinesOf(articles, "S1")) = 2
    /\ grouped = <<[source |-> "S1", headlines |-> <<<<"t">>>>]>>

====
